---- MODULE Spec2Model ----
(***************************************************************************)
(* Model of autogenstudio/chatmanager.py.                                  *)
(*                                                                         *)
(* WebSocketConnectionManager: coroutines of one asyncio event loop.  A    *)
(* coroutine runs without interruption from one suspension point to the    *)
(* next; the suspension points are `await websocket.accept()`, `await      *)
(* websocket.send_json(...)` and the acquisition of a held (or contended)  *)
(* asyncio.Lock.  Acquiring a free lock nobody waits for, and releasing a  *)
(* lock, do not suspend.  Each action below is one such uninterrupted run. *)
(*                                                                         *)
(* The manager is constructed with an asyncio.Lock (the default None of    *)
(* active_connections_lock is not a usable manager).                       *)
(*                                                                         *)
(* AutoGenChatManager.chat: one synchronous request, statement by          *)
(* statement.                                                              *)
(***************************************************************************)
EXTENDS Integers, Sequences, FiniteSets, TLC

\* Number of coroutines (each performs one registry operation).
NumProcs == 3
\* Largest registry the manager is constructed with.
MaxInit == 2

Procs == 1..NumProcs
\* WebSocket objects (identity is by reference) and client ids.
Handles == {"w1", "w2"}
ClientIds == {"a", "b"}

NoOp == [name |-> "none", ws |-> "none", cid |-> "none"]

VARIABLES
    active_connections,  \* self.active_connections: list of (websocket, client_id)
    locked,              \* self.active_connections_lock is held
    waiters,             \* coroutines suspended in the lock's acquire, FIFO
    pc,                  \* per coroutine: where it is suspended
    op,                  \* per coroutine: the operation it was called with
    snap,                \* per coroutine: the copy self.active_connections[:]
    idx,                 \* per coroutine: position of the for loop in snap
    result,              \* per coroutine: outcome of each delivery attempt
    removed,             \* websockets a disconnect removed and no connect re-added
    pending              \* send_message calls whose send_json has not started,
                         \* in call order: <<websocket, caller>>

regVars == <<active_connections, locked, waiters, pc, op, snap,
             idx, result, removed, pending>>

\* AutoGenChatManager.chat, one request
VARIABLES
    chat_pc,             \* the statement chat is at
    workflow,            \* the workflow argument: "None" or its summary_method
    content,             \* message.content, a tuple of characters
    message_text,        \* message.content.strip()
    message_queue,       \* self.message_queue: "None" or the queued messages
    work_dirs,           \* directories os.makedirs created
    workflow_manager,    \* "none", "constructed", "running", "ran"
    agent_history,       \* workflow_manager.agent_history: the contents
    code_blocks,         \* what extract_successful_code_blocks returned
    summarizer_calls,    \* calls of summarize_chat_history
    summarized,          \* what summarize_chat_history returned
    output,              \* the text _generate_output returns
    response,            \* the Message chat returns, "none" before
    error                \* the exception chat raised, "none" if none

chatVars == <<chat_pc, workflow, content, message_text, message_queue,
              work_dirs, workflow_manager, agent_history, code_blocks,
              summarizer_calls, summarized, output, response, error>>

vars == <<regVars, chatVars>>

----------------------------------------------------------------------------
(* Pure helpers *)

\* Faulty variant of Remove: an absent websocket costs the last entry.
RemoveOrPop(reg, h) ==
    IF \E i \in 1..Len(reg) : reg[i][1] = h
    THEN SelectSeq(reg, LAMBDA conn : conn[1] # h)
    ELSE SubSeq(reg, 1, Len(reg) - 1)

\* Faulty variant of Remove: the entries are matched by the client id of the
\* websocket's entries.
RemoveByClient(reg, h) ==
    SelectSeq(reg, LAMBDA conn :
        \A i \in 1..Len(reg) : reg[i][1] = h => conn[2] # reg[i][2])

\* [conn for conn in self.active_connections if conn[0] != websocket]
Remove(reg, h) == SelectSeq(reg, LAMBDA conn : conn[1] # h)

\* Faulty variant of AppendConn: the entry is put in front.
AppendFront(reg, h, c) == <<<<h, c>>>> \o reg

\* self.active_connections.append((websocket, client_id))
AppendConn(reg, h, c) == Append(reg, <<h, c>>)

HandlesOf(reg) == {reg[i][1] : i \in 1..Len(reg)}

Distinct(reg) == \A i, j \in 1..Len(reg) : reg[i][1] = reg[j][1] => i = j

\* asyncio.Lock.acquire takes the lock at once iff it is free and nobody waits.
LockFree(s) == ~s.locked /\ s.waiters = <<>>

----------------------------------------------------------------------------
(* The uninterrupted run of one coroutine, as a function on the record s of  *)
(* everything it can touch: the shared state and the coroutine's own fields. *)

\* open: what connection.client_state == State.OPEN gives, per websocket, for
\* the length of this run (no peer or transport code runs during it).
State(p, open) ==
    [self |-> p, open |-> open, reg |-> active_connections, locked |-> locked,
     waiters |-> waiters, removed |-> removed, pending |-> pending,
     pc |-> pc[p], op |-> op[p], snap |-> snap[p], idx |-> idx[p],
     res |-> result[p]]

Commit(p, s) ==
    /\ active_connections' = s.reg
    /\ locked' = s.locked
    /\ waiters' = s.waiters
    /\ removed' = s.removed
    /\ pending' = s.pending
    /\ pc' = [pc EXCEPT ![p] = s.pc]
    /\ op' = [op EXCEPT ![p] = s.op]
    /\ snap' = [snap EXCEPT ![p] = s.snap]
    /\ idx' = [idx EXCEPT ![p] = s.idx]
    /\ result' = [result EXCEPT ![p] = s.res]
    /\ UNCHANGED chatVars

IsLoop(s) == s.op.name \in {"broadcast", "disconnect_all"}

\* The websocket the coroutine is currently working on.
Cur(s) == IF IsLoop(s) THEN s.snap[s.idx][1] ELSE s.op.ws

RECURSIVE Loop(_), CallDisconnect(_, _), Continue(_)

\* Faulty variant of RemoveLocked: removing an absent websocket raises (as
\* list.remove would).
RemoveLockedRaise(s, h) ==
    IF \E i \in 1..Len(s.reg) : s.reg[i][1] = h
    THEN Continue([s EXCEPT !.reg = Remove(@, h), !.removed = @ \cup {h}])
    ELSE [s EXCEPT !.pc = "raised"]

\* The body of `async with lock:` in disconnect, then the return to the caller.
RemoveLocked(s, h) ==
    Continue([s EXCEPT !.reg = Remove(@, h), !.removed = @ \cup {h}])

\* Faulty variant of CallDisconnect: the list is filtered without the lock.
CallDisconnectNoLock(s, h) == RemoveLocked(s, h)

\* await self.disconnect(h)
CallDisconnect(s, h) ==
    IF LockFree(s)
    THEN RemoveLocked(s, h)
    ELSE [s EXCEPT !.waiters = Append(@, s.self), !.pc = "lock_disconnect"]

\* q without its first occurrence of e.
RECURSIVE DropFirst(_, _)
DropFirst(q, e) ==
    IF q = <<>> THEN <<>>
    ELSE IF Head(q) = e THEN Tail(q) ELSE <<Head(q)>> \o DropFirst(Tail(q), e)

\* websocket.send_json(message) starts, the lock held.
StartSendJson(s, h) ==
    [s EXCEPT !.locked = TRUE, !.pc = "send_json",
              !.pending = DropFirst(@, <<h, s.self>>)]

\* Faulty variant of CallSend: send_json is called without the lock.
CallSendNoLock(s, h) == [s EXCEPT !.pc = "send_json"]

\* Faulty variant of CallSend: a waiting sender goes to the front of the queue.
CallSendBarging(s, h) ==
    LET t == [s EXCEPT !.pending = Append(@, <<h, s.self>>)]
    IN  IF LockFree(t)
        THEN StartSendJson(t, h)
        ELSE [t EXCEPT !.waiters = <<s.self>> \o @, !.pc = "lock_send"]

\* await self.send_message(message, h) up to its first suspension.
CallSend(s, h) ==
    LET t == [s EXCEPT !.pending = Append(@, <<h, s.self>>)]
    IN  IF LockFree(t)
        THEN StartSendJson(t, h)
        ELSE [t EXCEPT !.waiters = Append(@, s.self), !.pc = "lock_send"]

\* Faulty variant of Loop: broadcast passes over a connection that is not
\* open without disconnecting it.
LoopSkipClosed(s) ==
    IF s.idx > Len(s.snap)
    THEN [s EXCEPT !.pc = "done"]
    ELSE LET h == s.snap[s.idx][1]
         IN  IF s.op.name = "disconnect_all"
             THEN CallDisconnect(s, h)
             ELSE IF s.open[h]
                  THEN CallSend(s, h)
                  ELSE Continue([s EXCEPT !.res = Append(@, "closed")])

\* One iteration of `for connection, _ in self.active_connections[:]`, in
\* disconnect_all and in broadcast, and the iterations after it for as long
\* as the coroutine does not suspend.  The except clause of broadcast is
\* never entered: send_message catches every Exception and neither
\* disconnect nor the read of client_state raises.
Loop(s) ==
    IF s.idx > Len(s.snap)
    THEN [s EXCEPT !.pc = "done"]
    ELSE LET h == s.snap[s.idx][1]
         IN  IF s.op.name = "disconnect_all"
             THEN CallDisconnect(s, h)
             ELSE IF s.open[h]
                  THEN CallSend(s, h)
                  ELSE CallDisconnect([s EXCEPT !.res = Append(@, "closed")], h)

\* Faulty variant of Continue: the first return ends the caller's loop.
ContinueAbort(s) == [s EXCEPT !.pc = "done"]

\* Faulty variant of Continue: the loop iterates the live list instead of the
\* copy taken when it started.
ContinueLive(s) ==
    IF IsLoop(s)
    THEN Loop([s EXCEPT !.idx = @ + 1, !.snap = s.reg])
    ELSE [s EXCEPT !.pc = "done"]

\* disconnect or send_message returns to its caller: the next iteration of
\* the caller's loop, or the end of the operation.
Continue(s) ==
    IF IsLoop(s)
    THEN Loop([s EXCEPT !.idx = @ + 1])
    ELSE [s EXCEPT !.pc = "done"]

AllOpen == [h \in Handles |-> TRUE]

\* The client states a run of coroutine p can meet; only broadcast reads them.
ClientStates(p) ==
    IF op[p].name \in {"broadcast", "none"} THEN [Handles -> BOOLEAN]
    ELSE {AllOpen}

\* The lock's release woke the first waiter and it is p.
Granted(p) == ~locked /\ waiters # <<>> /\ Head(waiters) = p

----------------------------------------------------------------------------
(* Registry operations *)

\* Faulty variant of Connect: the lock is taken before the handshake.
ConnectLockFirst(p, h, c) ==
    /\ pc[p] = "idle"
    /\ ~locked
    /\ waiters = <<>>
    /\ locked' = TRUE
    /\ pc' = [pc EXCEPT ![p] = "accept"]
    /\ op' = [op EXCEPT ![p] = [name |-> "connect", ws |-> h, cid |-> c]]
    /\ UNCHANGED <<active_connections, waiters, snap,
                   idx, result, removed, pending>>
    /\ UNCHANGED chatVars

\* connect is called: await websocket.accept() suspends.
Connect(p, h, c) ==
    /\ pc[p] = "idle"
    /\ pc' = [pc EXCEPT ![p] = "accept"]
    /\ op' = [op EXCEPT ![p] = [name |-> "connect", ws |-> h, cid |-> c]]
    /\ UNCHANGED <<active_connections, locked, waiters, snap,
                   idx, result, removed, pending>>
    /\ UNCHANGED chatVars

\* The append under the lock, and connect's return.
AppendLocked(s) ==
    [s EXCEPT !.reg = AppendConn(@, s.op.ws, s.op.cid),
              !.removed = @ \ {s.op.ws}, !.pc = "done"]

\* accept returned; the lock is taken at once or the coroutine queues for it.
AcceptOk(p) ==
    /\ pc[p] = "accept"
    /\ LET s == State(p, AllOpen)
       IN  Commit(p, IF LockFree(s)
                     THEN AppendLocked(s)
                     ELSE [s EXCEPT !.waiters = Append(@, p),
                                    !.pc = "lock_connect"])

\* accept raised: connect propagates the error.
AcceptFail(p) ==
    /\ pc[p] = "accept"
    /\ pc' = [pc EXCEPT ![p] = "raised"]
    /\ UNCHANGED <<active_connections, locked, waiters, op, snap,
                   idx, result, removed, pending>>
    /\ UNCHANGED chatVars

ConnectLocked(p) ==
    /\ pc[p] = "lock_connect"
    /\ Granted(p)
    /\ Commit(p, AppendLocked([State(p, AllOpen) EXCEPT !.waiters = Tail(@)]))

Disconnect(p, h) ==
    /\ pc[p] = "idle"
    /\ Commit(p, CallDisconnect(
           [State(p, AllOpen) EXCEPT !.op = [name |-> "disconnect", ws |-> h,
                                    cid |-> "none"]], h))

DisconnectLocked(p) ==
    /\ pc[p] = "lock_disconnect"
    /\ Granted(p)
    /\ \E open \in ClientStates(p) :
         LET s == [State(p, open) EXCEPT !.waiters = Tail(@)]
         IN  Commit(p, RemoveLocked(s, Cur(s)))

DisconnectAll(p) ==
    /\ pc[p] = "idle"
    /\ Commit(p, Loop(
           [State(p, AllOpen) EXCEPT
                !.op = [name |-> "disconnect_all", ws |-> "none", cid |-> "none"],
                !.snap = active_connections, !.idx = 1]))

SendMessage(p, h) ==
    /\ pc[p] = "idle"
    /\ Commit(p, CallSend(
           [State(p, AllOpen) EXCEPT !.op = [name |-> "send_message", ws |-> h,
                                    cid |-> "none"]], h))

SendLocked(p) ==
    /\ pc[p] = "lock_send"
    /\ Granted(p)
    /\ LET s == [State(p, AllOpen) EXCEPT !.waiters = Tail(@)]
       IN  Commit(p, StartSendJson(s, Cur(s)))

\* send_json returned: the lock is released and send_message returns.
SendJsonOk(p) ==
    /\ pc[p] = "send_json"
    /\ \E open \in ClientStates(p) :
         Commit(p, Continue([State(p, open) EXCEPT !.locked = FALSE,
                                                   !.res = Append(@, "ok")]))

\* Faulty variant of HandleSendError: the error is swallowed, nothing removed.
HandleNoCleanup(s) == Continue(s)

\* Faulty variant of HandleSendError: the handler runs inside `async with`,
\* the lock still held.
HandleHoldingLock(s) == CallDisconnect([s EXCEPT !.locked = TRUE], Cur(s))

\* The handlers of send_message: each awaits self.disconnect(websocket).
HandleSendError(s) == CallDisconnect(s, Cur(s))

\* send_json raised (WebSocketDisconnect, ConnectionClosedOK or any other
\* Exception): the lock is released on the way out of `async with`.
SendJsonFail(p) ==
    /\ pc[p] = "send_json"
    /\ \E open \in ClientStates(p) :
         Commit(p, HandleSendError([State(p, open) EXCEPT
                                        !.locked = FALSE,
                                        !.res = Append(@, "fail")]))

Broadcast(p) ==
    /\ pc[p] = "idle"
    /\ \E open \in ClientStates(p) :
         Commit(p, Loop(
             [State(p, open) EXCEPT
                  !.op = [name |-> "broadcast", ws |-> "none", cid |-> "none"],
                  !.snap = active_connections, !.idx = 1]))

----------------------------------------------------------------------------

\* Registries the manager is constructed with: no websocket twice, every
\* client id the first one.
InitRegistries ==
    {r \in UNION {[1..n -> Handles \X {"a"}] : n \in 0..MaxInit} :
        Distinct(r)}

RegInit(regs) ==
    /\ active_connections \in regs
    /\ locked = FALSE
    /\ waiters = <<>>
    /\ pc = [p \in Procs |-> "idle"]
    /\ op = [p \in Procs |-> NoOp]
    /\ snap = [p \in Procs |-> <<>>]
    /\ idx = [p \in Procs |-> 0]
    /\ result = [p \in Procs |-> <<>>]
    /\ removed = {}
    /\ pending = <<>>

NoResponse == [present |-> FALSE]

ChatIdle ==
    /\ chat_pc = "idle"
    /\ workflow = "None"
    /\ content = <<>>
    /\ message_text = <<>>
    /\ work_dirs = 0
    /\ workflow_manager = "none"
    /\ agent_history = <<>>
    /\ code_blocks = <<>>
    /\ summarizer_calls = 0
    /\ summarized = ""
    /\ output = ""
    /\ response = NoResponse
    /\ error = "none"

Init ==
    /\ RegInit(InitRegistries)
    /\ ChatIdle
    /\ message_queue = [present |-> TRUE, items |-> <<>>]

Next ==
    \/ \E p \in Procs, h \in Handles, c \in ClientIds : Connect(p, h, c)
    \/ \E p \in Procs : AcceptOk(p)
    \/ \E p \in Procs : AcceptFail(p)
    \/ \E p \in Procs : ConnectLocked(p)
    \/ \E p \in Procs, h \in Handles : Disconnect(p, h)
    \/ \E p \in Procs : DisconnectLocked(p)
    \/ \E p \in Procs : DisconnectAll(p)
    \/ \E p \in Procs, h \in Handles : SendMessage(p, h)
    \/ \E p \in Procs : SendLocked(p)
    \/ \E p \in Procs : SendJsonOk(p)
    \/ \E p \in Procs : SendJsonFail(p)
    \/ \E p \in Procs : Broadcast(p)

Spec == Init /\ [][Next]_vars

\* Coroutine p can be resumed by the event loop: the transport call it awaits
\* returns or raises (accept line 184, send_json line 217), or the lock it
\* waits for (lines 185, 196, 216) is free and it is first in line.
Runnable(p) ==
    \/ pc[p] \in {"accept", "send_json"}
    \/ pc[p] \in {"lock_connect", "lock_disconnect", "lock_send"} /\ Granted(p)

----------------------------------------------------------------------------
(* AutoGenChatManager *)

\* Progress notices one run of the executor may emit.
MaxNotices == 2
\* Longest interaction trace, and most code blocks extracted from one.
MaxTrace == 2
MaxBlocks == 2

SummaryMethods == {"last", "llm", "none", "other"}
Contents == {"A", "B"}
Blocks == {"", "print(1)"}
MessageContents == {<<" ", "h", " ">>, <<"h">>}
Summaries == {"", "S"}

Traces == UNION {[1..n -> Contents] : n \in 0..MaxTrace}
BlockLists == UNION {[1..n -> Blocks] : n \in 0..MaxBlocks}

\* extract_successful_code_blocks(history): the blocks it can return; there is
\* nothing to extract from an empty history.
ExtractedBlocks(history) == IF history = <<>> THEN {<<>>} ELSE BlockLists

\* str.strip() on a tuple of characters
RECURSIVE LStrip(_), RStrip(_)
LStrip(s) == IF s # <<>> /\ Head(s) = " " THEN LStrip(Tail(s)) ELSE s
RStrip(s) ==
    IF s # <<>> /\ s[Len(s)] = " " THEN RStrip(SubSeq(s, 1, Len(s) - 1)) ELSE s
Strip(s) == RStrip(LStrip(s))

\* sep.join(parts)
RECURSIVE Join(_, _)
Join(sep, parts) ==
    IF parts = <<>> THEN ""
    ELSE IF Len(parts) = 1 THEN parts[1]
    ELSE parts[1] \o sep \o Join(sep, Tail(parts))

\* AutoGenChatManager.send
Send(q, m) == IF q.present THEN [q EXCEPT !.items = Append(@, m)] ELSE q

\* A "last" branch that writes the separator whatever the blocks are.
LastAlwaysNewline(history, blocks) ==
    (IF history # <<>> THEN history[Len(history)] ELSE "")
        \o "\n" \o Join("\n\n", blocks)

\* The "last" branch of _generate_output; blocks is what
\* extract_successful_code_blocks returned.
LastOutput(history, blocks) ==
    LET last_message == IF history # <<>> THEN history[Len(history)] ELSE ""
        successful_code_blocks == Join("\n\n", blocks)
    IN  IF successful_code_blocks # ""
        THEN last_message \o "\n" \o successful_code_blocks
        ELSE last_message

StatusMessage == [type |-> "agent_status", status |-> "summarizing"]
ProgressMessage == [type |-> "agent_message", status |-> "progress"]

\* chat is called; the path of the working directory is built.
Chat(wf, c) ==
    /\ chat_pc = "idle"
    /\ chat_pc' = "makedirs"
    /\ workflow' = wf
    /\ content' = c
    /\ UNCHANGED <<message_text, message_queue, work_dirs, workflow_manager,
                   agent_history, summarizer_calls, output, response, error>>
    /\ UNCHANGED <<code_blocks, summarized>>
    /\ UNCHANGED regVars

\* os.makedirs(work_dir, exist_ok=True)
Makedirs ==
    /\ chat_pc = "makedirs"
    /\ chat_pc' = "validate"
    /\ work_dirs' = work_dirs + 1
    /\ UNCHANGED <<workflow, content, message_text, message_queue,
                   workflow_manager, agent_history, summarizer_calls, output,
                   response, error>>
    /\ UNCHANGED <<code_blocks, summarized>>
    /\ UNCHANGED regVars

MakedirsFail ==
    /\ chat_pc = "makedirs"
    /\ chat_pc' = "raised"
    /\ error' = "OSError"
    /\ UNCHANGED <<workflow, content, message_text, message_queue, work_dirs,
                   workflow_manager, agent_history, summarizer_calls, output,
                   response>>
    /\ UNCHANGED <<code_blocks, summarized>>
    /\ UNCHANGED regVars

\* if workflow is None: raise ValueError("Workflow must be specified")
Validate ==
    /\ chat_pc = "validate"
    /\ workflow = "None"
    /\ chat_pc' = "raised"
    /\ error' = "ValueError"
    /\ UNCHANGED <<workflow, content, message_text, message_queue, work_dirs,
                   workflow_manager, agent_history, summarizer_calls, output,
                   response>>
    /\ UNCHANGED <<code_blocks, summarized>>
    /\ UNCHANGED regVars

\* WorkflowManager(...), Workflow.model_validate, message.content.strip()
Construct ==
    /\ chat_pc = "validate"
    /\ workflow # "None"
    /\ chat_pc' = "run"
    /\ workflow_manager' = "constructed"
    /\ message_text' = Strip(content)
    /\ UNCHANGED <<workflow, content, message_queue, work_dirs, agent_history,
                   summarizer_calls, output, response, error>>
    /\ UNCHANGED <<code_blocks, summarized>>
    /\ UNCHANGED regVars

\* workflow_manager.run(...) calls send_message_function, which is self.send
RunEmit ==
    /\ chat_pc = "run"
    /\ Len(message_queue.items) < MaxNotices
    /\ workflow_manager' = "running"
    /\ message_queue' = Send(message_queue, ProgressMessage)
    /\ UNCHANGED <<chat_pc, workflow, content, message_text, work_dirs,
                   agent_history, summarizer_calls, output, response, error>>
    /\ UNCHANGED <<code_blocks, summarized>>
    /\ UNCHANGED regVars

\* workflow_manager.run(...) returns; the metadata is collected.
RunReturn(trace) ==
    /\ chat_pc = "run"
    /\ chat_pc' = "generate"
    /\ workflow_manager' = "ran"
    /\ agent_history' = trace
    /\ UNCHANGED <<workflow, content, message_text, message_queue, work_dirs,
                   summarizer_calls, output, response, error>>
    /\ UNCHANGED <<code_blocks, summarized>>
    /\ UNCHANGED regVars

\* A chat that catches the failure of run and goes on to build a response.
RunFailHandled ==
    /\ chat_pc = "run"
    /\ chat_pc' = "finalize"
    /\ output' = ""
    /\ UNCHANGED <<workflow, content, message_text, message_queue, work_dirs,
                   workflow_manager, agent_history, summarizer_calls,
                   response, error>>
    /\ UNCHANGED <<code_blocks, summarized>>
    /\ UNCHANGED regVars

\* workflow_manager.run(...) raises; chat does not catch it.
RunFail ==
    /\ chat_pc = "run"
    /\ chat_pc' = "raised"
    /\ error' = "ExecutorError"
    /\ UNCHANGED <<workflow, content, message_text, message_queue, work_dirs,
                   workflow_manager, agent_history, summarizer_calls, output,
                   response>>
    /\ UNCHANGED <<code_blocks, summarized>>
    /\ UNCHANGED regVars

\* _generate_output, summary_method "last"
GenerateLast(blocks) ==
    /\ chat_pc = "generate"
    /\ workflow = "last"
    /\ blocks \in ExtractedBlocks(agent_history)
    /\ chat_pc' = "finalize"
    /\ code_blocks' = blocks
    /\ output' = LastOutput(agent_history, blocks)
    /\ UNCHANGED <<workflow, content, message_text, message_queue, work_dirs,
                   workflow_manager, agent_history, summarizer_calls, response,
                   error>>
    /\ UNCHANGED summarized
    /\ UNCHANGED regVars

\* An "llm" branch that calls the summarizer without the status message.
GenerateLlmSilent ==
    /\ chat_pc = "generate"
    /\ workflow = "llm"
    /\ chat_pc' = "summarize"
    /\ UNCHANGED <<workflow, content, message_text, message_queue, work_dirs,
                   workflow_manager, agent_history, summarizer_calls, output,
                   response, error>>
    /\ UNCHANGED <<code_blocks, summarized>>
    /\ UNCHANGED regVars

\* _generate_output, summary_method "llm": the status message is sent
GenerateLlm ==
    /\ chat_pc = "generate"
    /\ workflow = "llm"
    /\ chat_pc' = "summarize"
    /\ message_queue' = Send(message_queue, StatusMessage)
    /\ UNCHANGED <<workflow, content, message_text, work_dirs,
                   workflow_manager, agent_history, summarizer_calls, output,
                   response, error>>
    /\ UNCHANGED <<code_blocks, summarized>>
    /\ UNCHANGED regVars

\* summarize_chat_history(task, messages, client) returns text
Summarize(text) ==
    /\ chat_pc = "summarize"
    /\ chat_pc' = "finalize"
    /\ summarizer_calls' = summarizer_calls + 1
    /\ summarized' = text
    /\ output' = text
    /\ UNCHANGED <<workflow, content, message_text, message_queue, work_dirs,
                   workflow_manager, agent_history, response, error>>
    /\ UNCHANGED code_blocks
    /\ UNCHANGED regVars

\* summarize_chat_history raises; neither _generate_output nor chat catches it.
SummarizeFail ==
    /\ chat_pc = "summarize"
    /\ chat_pc' = "raised"
    /\ summarizer_calls' = summarizer_calls + 1
    /\ error' = "SummarizerError"
    /\ UNCHANGED <<workflow, content, message_text, message_queue, work_dirs,
                   workflow_manager, agent_history, output, response>>
    /\ UNCHANGED <<code_blocks, summarized>>
    /\ UNCHANGED regVars

\* A _generate_output that treats an unknown summary_method as "last".
GenerateElseLast ==
    /\ chat_pc = "generate"
    /\ workflow \notin {"last", "llm"}
    /\ chat_pc' = "finalize"
    /\ output' = IF workflow = "none" THEN "" ELSE LastOutput(agent_history, <<>>)
    /\ UNCHANGED <<workflow, content, message_text, message_queue, work_dirs,
                   workflow_manager, agent_history, summarizer_calls, response,
                   error>>
    /\ UNCHANGED <<code_blocks, summarized>>
    /\ UNCHANGED regVars

\* _generate_output, summary_method "none" or any other value: output = ""
GenerateNone ==
    /\ chat_pc = "generate"
    /\ workflow \notin {"last", "llm"}
    /\ chat_pc' = "finalize"
    /\ output' = ""
    /\ UNCHANGED <<workflow, content, message_text, message_queue, work_dirs,
                   workflow_manager, agent_history, summarizer_calls, response,
                   error>>
    /\ UNCHANGED <<code_blocks, summarized>>
    /\ UNCHANGED regVars

\* output_message = Message(...); return output_message
Finalize ==
    /\ chat_pc = "finalize"
    /\ chat_pc' = "returned"
    /\ response' = [present |-> TRUE, role |-> "assistant", content |-> output,
                    messages |-> agent_history, summary_method |-> workflow]
    /\ UNCHANGED <<workflow, content, message_text, message_queue, work_dirs,
                   workflow_manager, agent_history, summarizer_calls, output,
                   error>>
    /\ UNCHANGED <<code_blocks, summarized>>
    /\ UNCHANGED regVars

InitChat ==
    /\ RegInit({<<>>})
    /\ ChatIdle
    /\ message_queue \in {[present |-> b, items |-> <<>>] : b \in BOOLEAN}

NextChat ==
    \/ \E wf \in SummaryMethods \cup {"None"}, c \in MessageContents : Chat(wf, c)
    \/ Makedirs
    \/ MakedirsFail
    \/ Validate
    \/ Construct
    \/ RunEmit
    \/ \E trace \in Traces : RunReturn(trace)
    \/ RunFail
    \/ \E blocks \in BlockLists : GenerateLast(blocks)
    \/ GenerateLlm
    \/ \E text \in Summaries : Summarize(text)
    \/ SummarizeFail
    \/ GenerateNone
    \/ Finalize

SpecChat == InitChat /\ [][NextChat]_vars

----------------------------------------------------------------------------
(* Properties *)

Outcomes(p) == {result[p][i] : i \in 1..Len(result[p])}

\* Coroutine p starts a send_json in this step.
Starts(p) == pc'[p] = "send_json" /\ (pc[p] # "send_json" \/ idx'[p] # idx[p])

\* The websocket p's send_json goes to after this step.
Target(p) ==
    IF op'[p].name = "broadcast" THEN snap'[p][idx'[p]][1] ELSE op'[p].ws

\* The websocket a suspended coroutine is working on.
CurOf(p) == IF op[p].name = "broadcast" THEN snap[p][idx[p]][1] ELSE op[p].ws

\* Coroutine p returns from operation name in this step.
Returns(p, name) == op'[p].name = name /\ pc[p] # "done" /\ pc'[p] = "done"

\* p ran a whole broadcast while no other coroutine had started.
BroadcastAlone(p) ==
    /\ op[p].name = "broadcast"
    /\ pc[p] = "done"
    /\ \A q \in Procs \ {p} : pc[q] = "idle"

\* C1: a broadcast over N distinct connections all reported open, run with no
\* other registry operation, attempts every connection of its snapshot; the
\* connections whose transmission did not fail received the message, those
\* whose transmission failed are gone from the registry, and N - |F| remain.
C1_BroadcastIsolation ==
    \A p \in Procs :
        BroadcastAlone(p) /\ Distinct(snap[p]) /\ "closed" \notin Outcomes(p) =>
            /\ Len(result[p]) = Len(snap[p])
            /\ LET F == {i \in 1..Len(snap[p]) : result[p][i] = "fail"}
               IN  /\ \A i \in (1..Len(snap[p])) \ F : result[p][i] = "ok"
                   /\ \A i \in F :
                          snap[p][i][1] \notin HandlesOf(active_connections)
                   /\ \A i \in (1..Len(snap[p])) \ F :
                          snap[p][i][1] \in HandlesOf(active_connections)
                   /\ Len(active_connections) = Len(snap[p]) - Cardinality(F)

\* A broadcast over two connections whose first transmission failed and whose
\* second succeeded.
C1_Witness ==
    \E p \in Procs :
        /\ BroadcastAlone(p)
        /\ Len(snap[p]) = 2
        /\ result[p] = <<"fail", "ok">>
        /\ Len(active_connections) = 1

\* C2: a send_message whose transmission failed never raises, and at the
\* step it returns a disconnect has removed its websocket, which is absent
\* from the registry.
C2_SendCleansUp ==
    [][\A p \in Procs :
           op'[p].name = "send_message" /\ "fail" \in {result'[p][i] : i \in 1..Len(result'[p])} =>
               /\ pc'[p] # "raised"
               /\ Returns(p, "send_message") =>
                      /\ op'[p].ws \in removed'
                      /\ op'[p].ws \notin HandlesOf(active_connections')]_vars

\* A failed send_message to a websocket that was registered at construction
\* has returned, with no connect or disconnect called by anyone.
C2_Witness ==
    \E p \in Procs :
        /\ op[p].name = "send_message"
        /\ pc[p] = "done"
        /\ result[p] = <<"fail">>
        /\ op[p].ws \in removed
        /\ op[p].ws \notin HandlesOf(active_connections)
        /\ \A q \in Procs \ {p} : op[q].name \in {"none", "send_message"}

\* C3 (as claimed): no websocket is in the registry twice.
C3_NoDuplicates == Distinct(active_connections)

\* C4: a disconnect never raises; when it returns its websocket is absent
\* from the registry (so a second call finds it absent), and a disconnect of
\* a websocket that was absent leaves the registry exactly as it was.
C4_DisconnectIdempotent ==
    [][\A p \in Procs :
           /\ op'[p].name = "disconnect" => pc'[p] # "raised"
           /\ Returns(p, "disconnect") =>
                  /\ op'[p].ws \notin HandlesOf(active_connections')
                  /\ op'[p].ws \notin HandlesOf(active_connections) =>
                         active_connections' = active_connections]_vars

\* Two disconnects of the same websocket have returned, no connect was ever
\* called, and another connection is still registered.
C4_Witness ==
    \E p, q \in Procs :
        /\ p # q
        /\ op[p].name = "disconnect" /\ pc[p] = "done"
        /\ op[q].name = "disconnect" /\ pc[q] = "done"
        /\ op[p].ws = op[q].ws
        /\ \A r \in Procs : op[r].name # "connect"
        /\ active_connections # <<>>

\* C5: disconnect_all never raises, and when no connect has been called the
\* registry is empty once it has returned, whoever else removed connections
\* of its snapshot in the meantime.
C5_DisconnectAllEmpties ==
    \A p \in Procs :
        op[p].name = "disconnect_all" =>
            /\ pc[p] # "raised"
            /\ (pc[p] = "done" /\ \A q \in Procs : op[q].name # "connect") =>
                   active_connections = <<>>

\* disconnect_all waits for the lock in the middle of its sweep while a
\* later connection of its snapshot has already been removed by a disconnect
\* of another coroutine.
C5_Witness ==
    \E p, q \in Procs :
        /\ op[p].name = "disconnect_all"
        /\ pc[p] = "lock_disconnect"
        /\ idx[p] < Len(snap[p])
        /\ op[q].name = "disconnect" /\ pc[q] = "done"
        /\ op[q].ws = snap[p][Len(snap[p])][1]
        /\ op[q].ws \notin HandlesOf(active_connections)
        /\ \A r \in Procs : op[r].name # "connect"

\* C6: at most one send_json is in flight at any instant, and the lock is
\* held while it is.
C6_OneTransmission ==
    /\ Cardinality({p \in Procs : pc[p] = "send_json"}) <= 1
    /\ (\E p \in Procs : pc[p] = "send_json") => locked

\* One coroutine transmits to a websocket while another waits to send to the
\* same websocket.
C6_Witness ==
    \E p, q \in Procs :
        /\ pc[p] = "send_json"
        /\ pc[q] = "lock_send"
        /\ CurOf(p) = CurOf(q)

\* C7 (as claimed): no send_json starts to a websocket that a completed
\* disconnect removed and no later connect registered again.
C7_NoSendAfterDisconnect ==
    [][\A p \in Procs : Starts(p) => Target(p) \notin removed]_vars

\* C8: a send_json to a websocket starts only when no earlier send_message
\* call for that websocket is still waiting to transmit and no other
\* transmission to it is in flight.
C8_CallOrder ==
    [][\A p \in Procs :
           Starts(p) =>
               LET h == Target(p)
                   earlier == SelectSeq(pending, LAMBDA e : e[1] = h)
               IN  /\ earlier = <<>> \/ Head(earlier) = <<h, p>>
                   /\ \A q \in Procs \ {p} :
                          ~(pc[q] = "send_json" /\ CurOf(q) = h)]_vars

\* Two send_message calls for one websocket wait for the lock in call order
\* behind a third transmission.
C8_Witness ==
    \E p, q, r \in Procs :
        /\ op[p].name = "send_message" /\ pc[p] = "lock_send"
        /\ op[q].name = "send_message" /\ pc[q] = "lock_send"
        /\ p # q
        /\ op[p].ws = op[q].ws
        /\ pc[r] = "send_json"
        /\ pending = <<<<op[p].ws, p>>, <<op[q].ws, q>>>>

\* C9 (as claimed): a request without workflow is rejected before any
\* working directory is created and before the WorkflowManager is built, and
\* gets no response.
C9_RejectedBeforeWork ==
    error = "ValueError" =>
        /\ work_dirs = 0
        /\ workflow_manager = "none"
        /\ ~response.present

Count(reg, e) == Cardinality({i \in 1..Len(reg) : reg[i] = e})

\* C10: the step in which a connect returns appends its (websocket,
\* client_id) at the end of the registry and changes nothing else; while only
\* connects have been called, every connect that returned has its entry in
\* the registry, as many times as connects with that entry returned.
C10_ConnectAppends ==
    /\ [][\A p \in Procs :
              Returns(p, "connect") =>
                  active_connections' =
                      Append(active_connections, <<op[p].ws, op[p].cid>>)]_vars
    /\ []((\A q \in Procs : op[q].name \in {"none", "connect"}) =>
              \A p \in Procs :
                  pc[p] = "done" =>
                      Count(active_connections, <<op[p].ws, op[p].cid>>) >=
                          Cardinality({q \in Procs :
                              /\ pc[q] = "done"
                              /\ op[q].ws = op[p].ws
                              /\ op[q].cid = op[p].cid}))

\* Every coroutine called connect and all have returned.
C10_Witness ==
    /\ \A p \in Procs : op[p].name = "connect" /\ pc[p] = "done"
    /\ Len(active_connections) >= NumProcs

Started(p) == pc[p] \notin {"idle", "done", "raised"}

\* The steps coroutine p can still need: three for the connection it is at
\* (wait for the lock, send_json, wait for the lock in disconnect) and three
\* for every later connection of its snapshot; two for a connect.
Work(p) ==
    CASE pc[p] \in {"idle", "done", "raised"} -> 0
      [] pc[p] = "accept" -> 2
      [] pc[p] = "lock_connect" -> 1
      [] OTHER ->
           3 * (IF op[p].name \in {"broadcast", "disconnect_all"}
                THEN Len(snap[p]) - idx[p] ELSE 0)
           + (CASE pc[p] = "lock_send" -> 3
                [] pc[p] = "send_json" -> 2
                [] OTHER -> 1)

\* C11: the lock is only ever held by a coroutine inside send_json, never by
\* one that waits in disconnect; the coroutines waiting for the lock are
\* exactly those queued; while any operation is in progress some coroutine
\* can be resumed (a transport call returns or raises, or the first waiter
\* gets the free lock), and when none is in progress the lock is free;
\* every step of a started operation lowers the bounded work it has left.
\* So every started operation completes, given that transport calls return
\* or raise and ready coroutines are run.
C11_DeadlockFree ==
    /\ [](/\ locked => \E p \in Procs : pc[p] = "send_json"
          /\ \A p \in Procs :
                 pc[p] \in {"lock_connect", "lock_disconnect", "lock_send"} <=>
                     \E i \in 1..Len(waiters) : waiters[i] = p
          /\ (\E p \in Procs : Started(p)) => \E q \in Procs : Runnable(q)
          /\ (\A p \in Procs : ~Started(p)) => ~locked /\ waiters = <<>>)
    /\ [][\A p \in Procs :
              /\ Work(p) >= 0
              /\ (Started(p) /\ <<pc[p], idx[p], result[p]>>' #
                                    <<pc[p], idx[p], result[p]>>) =>
                     Work(p)' < Work(p)]_vars

\* A send_message whose transmission failed waits for the lock in its
\* handler's disconnect, behind another coroutine, while a third transmits.
C11_Witness ==
    \E p, q \in Procs :
        /\ op[p].name = "send_message"
        /\ pc[p] = "lock_disconnect"
        /\ result[p] = <<"fail">>
        /\ pc[q] = "send_json"
        /\ locked
        /\ Len(waiters) = 2

\* C12: a request has a response exactly when chat has returned; the response
\* is built only after workflow_manager.run has returned and the summary step
\* has finished (with "llm", after the one call of the summarizer), carries
\* the output and the trace of that run, and never changes afterwards; a run
\* that fails ends the request with the executor's error and no response.
C12_ResponseAfterRun ==
    /\ [](/\ response.present <=> chat_pc = "returned"
          /\ chat_pc \in {"finalize", "returned"} =>
                 /\ workflow_manager = "ran"
                 /\ error = "none"
                 /\ workflow = "llm" => summarizer_calls = 1
          /\ response.present =>
                 /\ response.content = output
                 /\ response.messages = agent_history
          /\ chat_pc = "raised" => error # "none" /\ ~response.present)
    /\ [][/\ response.present => response' = response
          /\ chat_pc = "run" /\ chat_pc' \notin {"run", "generate"} =>
                 /\ chat_pc' = "raised"
                 /\ error' = "ExecutorError"
                 /\ response' = NoResponse]_vars

\* A request with policy "llm" has returned its response after the executor
\* emitted progress notices and the summarizer ran.
C12_Witness ==
    /\ chat_pc = "returned"
    /\ response.present
    /\ workflow = "llm"
    /\ summarizer_calls = 1
    /\ Len(message_queue.items) = MaxNotices

LastContent == IF agent_history # <<>> THEN agent_history[Len(agent_history)] ELSE ""

StatusNotices ==
    Cardinality({i \in 1..Len(message_queue.items) :
                     message_queue.items[i] = StatusMessage})

\* C14: with policy "none", and with any policy other than "last", "llm" and
\* "none", the output and the response's content are empty whatever the
\* trace is, no "summarizing" status notice is sent and the summarizer is
\* never called; the step that generates the output sends nothing at all.
C14_NoneIsEmpty ==
    /\ [](chat_pc \in {"finalize", "returned"} /\ workflow \notin {"last", "llm"} =>
              /\ output = ""
              /\ summarizer_calls = 0
              /\ summarized = ""
              /\ StatusNotices = 0
              /\ response.present => response.content = "")
    /\ [][chat_pc = "generate" /\ workflow \notin {"last", "llm"} =>
              /\ message_queue' = message_queue
              /\ summarizer_calls' = summarizer_calls]_vars

\* A request with an unknown policy returned an empty output for the
\* non-empty trace [A, B], with progress notices queued.
C14_Witness ==
    /\ chat_pc = "returned"
    /\ workflow = "other"
    /\ agent_history = <<"A", "B">>
    /\ message_queue.items # <<>>
    /\ response.content = ""

StatusIsLast ==
    message_queue.present =>
        /\ StatusNotices = 1
        /\ message_queue.items[Len(message_queue.items)] = StatusMessage

\* C16: with policy "llm" no "summarizing" notice is sent and the summarizer
\* is not called before workflow_manager.run has returned; when the summarizer
\* is called the run has returned and exactly one "summarizing" notice has been
\* sent, after every progress notice (it is in the queue, last, when there is
\* a queue); the summarizer is called exactly once, nothing is sent during or
\* after the call, and the text it returns is the output and the response's
\* content.
C16_LlmOrdering ==
    /\ [](workflow = "llm" =>
              /\ chat_pc \notin {"summarize", "finalize", "returned", "raised"} =>
                     StatusNotices = 0 /\ summarizer_calls = 0
              /\ chat_pc = "summarize" =>
                     /\ workflow_manager = "ran"
                     /\ summarizer_calls = 0
                     /\ StatusIsLast
              /\ chat_pc \in {"finalize", "returned"} =>
                     /\ summarizer_calls = 1
                     /\ output = summarized
                     /\ StatusIsLast
                     /\ response.present => response.content = summarized)
    /\ [][/\ summarizer_calls' # summarizer_calls =>
                 /\ chat_pc = "summarize"
                 /\ summarizer_calls' = 1
                 /\ message_queue' = message_queue
          /\ StatusNotices' # StatusNotices =>
                 /\ chat_pc = "generate"
                 /\ workflow = "llm"
                 /\ message_queue'.items = Append(message_queue.items, StatusMessage)
                 /\ summarizer_calls' = 0]_vars

\* A request with policy "llm" returned the summarizer's text "S"; the queue
\* holds one progress notice followed by the status notice.
C16_Witness ==
    /\ chat_pc = "returned"
    /\ workflow = "llm"
    /\ message_queue.items = <<ProgressMessage, StatusMessage>>
    /\ output = "S"
    /\ response.content = "S"

\* Coroutine p is inside the same send_json before and after this step.
StillInFlight(p) ==
    /\ pc[p] = "send_json"
    /\ pc'[p] = "send_json"
    /\ idx'[p] = idx[p]
    /\ result'[p] = result[p]

\* C15: a coroutine inside send_json holds the lock and is the only one
\* inside send_json; no step taken while its transmission stays in flight
\* changes the registry's entry list, so the connection being written to is
\* not removed (and none is added) until the transmission has ended.
C15_FrozenInFlight ==
    /\ [](\A p \in Procs :
              pc[p] = "send_json" =>
                  /\ locked
                  /\ \A q \in Procs \ {p} : pc[q] # "send_json")
    /\ [][(\E p \in Procs : StillInFlight(p)) =>
              active_connections' = active_connections]_vars

\* While p transmits to a registered websocket, a disconnect of that very
\* websocket and a connect both wait for the lock.
C15_Witness ==
    \E p, q, r \in Procs :
        /\ pc[p] = "send_json"
        /\ CurOf(p) \in HandlesOf(active_connections)
        /\ pc[q] = "lock_disconnect"
        /\ op[q].name = "disconnect"
        /\ op[q].ws = CurOf(p)
        /\ pc[r] = "lock_connect"

\* C17: in a broadcast every snapshot entry up to the current one has one
\* outcome, and the entry a transmission is requested for or in flight to has
\* none yet, so an entry found not open ("closed") gets no transmission; in
\* the step in which the disconnect of a not-open entry completes its
\* websocket is absent from the registry; the loop goes on, so a broadcast
\* that returned has an outcome for every entry of its snapshot.
C17_ClosedDisconnected ==
    /\ [](\A p \in Procs :
              op[p].name = "broadcast" =>
                  /\ pc[p] \in {"lock_send", "send_json"} =>
                         Len(result[p]) = idx[p] - 1
                  /\ pc[p] = "lock_disconnect" =>
                         /\ Len(result[p]) = idx[p]
                         /\ result[p][idx[p]] \in {"closed", "fail"}
                  /\ pc[p] = "done" => Len(result[p]) = Len(snap[p]))
    /\ [][\A p \in Procs :
              op'[p].name = "broadcast" =>
                  /\ \A i \in 1..Len(result'[p]) :
                         result'[p][i] = "closed" /\ idx[p] <= i /\ idx'[p] > i =>
                             snap'[p][i][1] \notin HandlesOf(active_connections')
                  /\ Starts(p) => idx'[p] > Len(result'[p])
                  /\ \A i \in 1..Len(result[p]) :
                         i <= Len(result'[p]) /\ result'[p][i] = result[p][i]]_vars

\* A broadcast returned: its first snapshot entry was not open and is gone
\* from the registry, its second received the message and is registered.
C17_Witness ==
    \E p \in Procs :
        /\ op[p].name = "broadcast"
        /\ pc[p] = "done"
        /\ result[p] = <<"closed", "ok">>
        /\ snap[p][1][1] \notin HandlesOf(active_connections)
        /\ snap[p][2][1] \in HandlesOf(active_connections)

\* C18: the snapshot of a broadcast is the registry at the moment the
\* broadcast is called and never changes afterwards, whatever connects and
\* disconnects do to the registry; the broadcast walks it forwards, one
\* outcome per entry passed, and each transmission it requests or starts is
\* to the snapshot entry at a position greater than all positions before, so
\* no entry is attempted twice, none is skipped and nothing outside the
\* snapshot is attempted.
C18_Snapshot ==
    /\ [](\A p \in Procs :
              op[p].name = "broadcast" =>
                  /\ idx[p] \in 1..(Len(snap[p]) + 1)
                  /\ Len(result[p]) \in {idx[p] - 1, idx[p]}
                  /\ Len(result[p]) <= Len(snap[p])
                  /\ pc[p] = "done" <=> idx[p] = Len(snap[p]) + 1
                  /\ \A i \in 1..Len(pending) :
                         pending[i][2] = p => pending[i][1] = snap[p][idx[p]][1])
    /\ [][\A p \in Procs :
              /\ pc[p] = "idle" /\ op'[p].name = "broadcast" =>
                     snap'[p] = active_connections
              /\ op[p].name = "broadcast" =>
                     /\ snap'[p] = snap[p]
                     /\ idx'[p] >= idx[p]
                     /\ Len(result'[p]) - Len(result[p]) \in
                            {idx'[p] - idx[p] - 1, idx'[p] - idx[p],
                             idx'[p] - idx[p] + 1}
                     /\ Starts(p) =>
                            \/ idx'[p] > idx[p]
                            \/ pc[p] = "lock_send" /\ idx'[p] = idx[p]
                     /\ pc'[p] = "lock_send" /\ pc[p] # "lock_send" =>
                            idx'[p] > idx[p]]_vars

\* A broadcast is still busy with the one entry of its snapshot while a
\* connect of another websocket has completed: that websocket is registered
\* and is not in the snapshot.
C18_Witness ==
    \E p, q \in Procs :
        /\ op[p].name = "broadcast"
        /\ pc[p] = "lock_disconnect"
        /\ Len(snap[p]) = 1
        /\ op[q].name = "connect"
        /\ pc[q] = "done"
        /\ op[q].ws \notin HandlesOf(snap[p])
        /\ op[q].ws \in HandlesOf(active_connections)

\* The positions of reg whose entry is not for websocket h.
Kept(reg, h) == {i \in 1..Len(reg) : reg[i][1] # h}

\* C19: the step in which disconnect(h) returns leaves in the registry
\* exactly the entries whose websocket is not h, whatever their client id,
\* each as often as before and in the same relative order, and no entry for
\* h; the call of a disconnect that has to wait for the lock changes nothing.
C19_DisconnectFrame ==
    [][\A p \in Procs :
           /\ Returns(p, "disconnect") =>
                  LET h == op'[p].ws
                      keep == Kept(active_connections, h)
                  IN  /\ Len(active_connections') = Cardinality(keep)
                      /\ \A i \in keep :
                             active_connections'[Cardinality({j \in keep : j <= i})]
                                 = active_connections[i]
                      /\ h \notin HandlesOf(active_connections')
                      /\ locked' = locked
           /\ op'[p].name = "disconnect" /\ pc[p] = "idle" /\
                  pc'[p] = "lock_disconnect" =>
                  active_connections' = active_connections]_vars

\* connect(w1, "a") and then disconnect(w1) have returned, nothing else was
\* called: the entry of w2, which has the same client id, is what is left.
C19_Witness ==
    \E p, q \in Procs :
        /\ op[p] = [name |-> "disconnect", ws |-> "w1", cid |-> "none"]
        /\ pc[p] = "done"
        /\ op[q] = [name |-> "connect", ws |-> "w1", cid |-> "a"]
        /\ pc[q] = "done"
        /\ \A r \in Procs \ {p, q} : pc[r] = "idle"
        /\ active_connections = <<<<"w2", "a">>>>

\* C20: a connect whose accept raises ends with the error in a step that
\* changes neither the registry nor the lock nor its queue; a connect inside
\* accept, like one that raised, neither holds the lock nor waits for it, and
\* calling connect leaves the lock and its queue as they were, so when every
\* operation in progress is a connect inside accept the lock is free for
\* whoever comes next.
C20_FailedAccept ==
    /\ [](/\ \A p \in Procs :
                 op[p].name = "connect" /\ pc[p] \in {"accept", "raised"} =>
                     \A i \in 1..Len(waiters) : waiters[i] # p
          /\ (\A p \in Procs : pc[p] \in {"idle", "accept", "done", "raised"}) =>
                 ~locked /\ waiters = <<>>)
    /\ [][\A p \in Procs :
              /\ pc[p] = "accept" /\ pc'[p] = "raised" =>
                     /\ active_connections' = active_connections
                     /\ locked' = locked
                     /\ waiters' = waiters
                     /\ removed' = removed
              /\ pc[p] = "idle" /\ pc'[p] = "accept" =>
                     /\ active_connections' = active_connections
                     /\ locked' = locked
                     /\ waiters' = waiters
              /\ pc'[p] = "raised" => pc[p] \in {"accept", "raised"}]_vars

\* The accept of connect(h, c) raised while another coroutine transmits under
\* the lock and a third is inside its own accept: h is not registered.
C20_Witness ==
    \E p, q, r \in Procs :
        /\ op[p].name = "connect"
        /\ pc[p] = "raised"
        /\ op[p].ws \notin HandlesOf(active_connections)
        /\ pc[q] = "send_json"
        /\ pc[r] = "accept"

====
